---- MODULE Spec2Model ----
(***************************************************************************)
(* Model of immich-duplicate-cleaner (src/main.go): the run of main over   *)
(* the duplicate groups returned by the Immich server, the album           *)
(* synchronisation of each group, the optional deletion of lower-quality   *)
(* duplicates, and the quality ranking of the assets of a group.           *)
(*                                                                         *)
(* Strings are sequences of one-character strings.  The rune U+017F        *)
(* (LATIN SMALL LETTER LONG S), which Go's case folding relates to "s" and *)
(* "S", is written "long_s".                                               *)
(***************************************************************************)
EXTENDS Integers, Sequences, FiniteSets, Bags, TLC

(***************************************************************************)
(* Bounds of the model.                                                    *)
(***************************************************************************)
NumAssets == 3      \* asset identifiers on the server: 1..NumAssets
NumAlbums == 2      \* album identifiers on the server: 1..NumAlbums
MaxSize == 2      \* file sizes range over 0..MaxSize
MaxTime == 2      \* creation instants range over 0..MaxTime (0: zero time)
MaxCands == 3      \* candidates handed to the ranker in SpecSelect

Assets == 1..NumAssets
Albums == 1..NumAlbums

\* The empty asset identifier "" (the zero value of string).
NoAsset == 0

(***************************************************************************)
(* Runes and strings.                                                      *)
(***************************************************************************)
LongS == "long_s"
\* U+0131, LATIN SMALL LETTER DOTLESS I.
DotlessI == "dotless_i"

Lowers == <<"a", "c", "d", "e", "g", "h", "i", "m", "n", "o", "p", "s", "t", "v", "y">>
Uppers == <<"A", "C", "D", "E", "G", "H", "I", "M", "N", "O", "P", "S", "T", "V", "Y">>

IndexIn(c, tbl) == IF \E k \in 1..Len(tbl) : tbl[k] = c
                   THEN CHOOSE k \in 1..Len(tbl) : tbl[k] = c
                   ELSE 0

\* unicode.ToUpper on one rune.
ToUpperRune(c) ==
  IF IndexIn(c, Lowers) # 0 THEN Uppers[IndexIn(c, Lowers)]
  ELSE IF c = LongS THEN "S"
  ELSE IF c = DotlessI THEN "I"
  ELSE c

\* strings.ToUpper.
ToUpper(s) == [k \in 1..Len(s) |-> ToUpperRune(s[k])]

\* strings.HasPrefix.
HasPrefix(s, prefix) ==
  /\ Len(s) >= Len(prefix)
  /\ SubSeq(s, 1, Len(prefix)) = prefix

\* unicode.SimpleFold: the next rune of the case-folding orbit of c.
SimpleFold(c) ==
  IF c = "s" THEN LongS
  ELSE IF c = LongS THEN "S"
  ELSE IF IndexIn(c, Uppers) # 0 THEN Lowers[IndexIn(c, Uppers)]
  ELSE IF IndexIn(c, Lowers) # 0 THEN Uppers[IndexIn(c, Lowers)]
  ELSE c

\* strings.EqualFold: equal length, and rune by rune equal or in one orbit.
EqualFold(s, t) ==
  /\ Len(s) = Len(t)
  /\ \A k \in 1..Len(s) :
       \/ s[k] = t[k]
       \/ SimpleFold(s[k]) = t[k]
       \/ SimpleFold(SimpleFold(s[k])) = t[k]

(***************************************************************************)
(* Filename Classifier.                                                    *)
(***************************************************************************)
prefixes == << <<"I", "M", "G", "_">>, <<"D", "S", "C", "_">>, <<"D", "S", "C", "N">>,
               <<"P", "_">>, <<"P", "H", "O", "T", "O", "_">>, <<"V", "I", "D", "_">> >>

\* (upper is bound once, as the local variable of the code is assigned once.)
isOriginalFilename(filename) ==
  \A upper \in {ToUpper(filename)} :
    ~ \E k \in 1..Len(prefixes) : HasPrefix(upper, prefixes[k])

(***************************************************************************)
(* Quality Ranker.  AssetDetails is a record                               *)
(*   [OriginalFileName, HasExif, FileSizeInByte, FileCreatedAt];           *)
(* HasExif = FALSE is ExifInfo == nil, FileCreatedAt = 0 the zero time.    *)
(* The Go loop ranges over a map, whose iteration order is unspecified:    *)
(* the order is a parameter.                                               *)
(***************************************************************************)
\* Mutant of Before: an equal instant counts as earlier.
Mut_Before(t, u) == t <= u

Before(t, u) == t < u

\* Mutant of InitialBest: the size to beat starts at 0.
Mut_InitialBest == [bestID |-> NoAsset, bestSize |-> 0]

InitialBest == [bestID |-> NoAsset, bestSize |-> -1]

\* Mutant of RankStep: the tie rules are applied to a smaller candidate too.
Mut_RankStepTiesOnSmaller(assets, st, assetID) ==
  LET details == assets[assetID]
      size    == details.FileSizeInByte
  IN  IF ~ details.HasExif THEN st
      ELSE IF size > st.bestSize
        THEN [bestID |-> assetID, bestSize |-> size]
      ELSE IF size <= st.bestSize /\ st.bestID # NoAsset
        THEN IF /\ isOriginalFilename(details.OriginalFileName)
                /\ ~ isOriginalFilename(assets[st.bestID].OriginalFileName)
               THEN [st EXCEPT !.bestID = assetID]
             ELSE IF details.FileCreatedAt < assets[st.bestID].FileCreatedAt
               THEN [st EXCEPT !.bestID = assetID]
             ELSE st
      ELSE st

\* One iteration of the loop of selectBestQualityAsset.
RankStep(assets, st, assetID) ==
  LET details == assets[assetID]
      size    == details.FileSizeInByte
  IN  IF ~ details.HasExif THEN st
      ELSE IF size > st.bestSize
        THEN [bestID |-> assetID, bestSize |-> size]
      ELSE IF size = st.bestSize /\ st.bestID # NoAsset
        THEN IF /\ isOriginalFilename(details.OriginalFileName)
                /\ ~ isOriginalFilename(assets[st.bestID].OriginalFileName)
               THEN [st EXCEPT !.bestID = assetID]
             ELSE IF Before(details.FileCreatedAt, assets[st.bestID].FileCreatedAt)
               THEN [st EXCEPT !.bestID = assetID]
             ELSE st
      ELSE st

RECURSIVE RankLoop(_, _, _)
RankLoop(assets, order, st) ==
  IF order = <<>> THEN st
  ELSE CHOOSE r \in { RankLoop(assets, Tail(order), next) :
                       next \in {RankStep(assets, st, Head(order))} } : TRUE

\* selectBestQualityAsset, the map visited in the given order.
selectBestQualityAsset(assets, order) == RankLoop(assets, order, InitialBest).bestID

\* The orders in which a map with key set S can be visited.
Orders(S) ==
  { o \in [1..Cardinality(S) -> S] : \A i, j \in 1..Cardinality(S) : i # j => o[i] # o[j] }


(***************************************************************************)
(* Inputs: what the server and the operator may answer.                    *)
(***************************************************************************)
MaxGroups == 2    \* groups in the listing returned by getDuplicates
MaxFailures == 2    \* gateway calls that fail during one run

\* A group is the sequence of its asset identifiers (DuplicateGroup.Assets).
\* The listing built from the group sizes: assets are numbered consecutively,
\* so the groups of one listing are disjoint, as duplicate groups are.
RECURSIVE ListingFrom(_, _)
ListingFrom(first, sizes) ==
  IF sizes = <<>> THEN <<>>
  ELSE <<[k \in 1..Head(sizes) |-> first + k - 1]>>
         \o ListingFrom(first + Head(sizes), Tail(sizes))

RECURSIVE SumSeq(_)
SumSeq(s) == IF s = <<>> THEN 0 ELSE Head(s) + SumSeq(Tail(s))

SizeSeqs ==
  { sz \in UNION { [1..n -> 1..NumAssets] : n \in 0..MaxGroups } : SumSeq(sz) <= NumAssets }

Listings == { ListingFrom(1, sz) : sz \in SizeSeqs }

CameraName == <<"I", "M", "G", "_", "1">>
OriginalName == <<"v", "a", "c", "a", "t", "i", "o", "n">>

NoExif ==
  [OriginalFileName |-> OriginalName, HasExif |-> FALSE, FileSizeInByte |-> 0,
   FileCreatedAt |-> 1]

\* The AssetDetails getAssetDetails may decode during a run.
DetailsAnswers ==
  { NoExif,
    [OriginalFileName |-> CameraName, HasExif |-> TRUE, FileSizeInByte |-> 1,
     FileCreatedAt |-> 1],
    [OriginalFileName |-> OriginalName, HasExif |-> TRUE, FileSizeInByte |-> MaxSize,
     FileCreatedAt |-> 0] }

\* The words Scanln may store in response.
Responses ==
  { <<"y">>, <<"Y", "e", "S">>, <<"y", "e", LongS>>, <<"n">>, <<"y", "e">> }

(***************************************************************************)
(* State.                                                                  *)
(***************************************************************************)
VARIABLES
  config,         \* Config: AutoDelete, DryRun, Yes
  pc,             \* position of main
  duplicates,     \* the listing main iterates over
  gi,             \* i+1 of the loop of main: the group being processed
  serverGroups,   \* server: the duplicate groups it reports
  albumMembers,   \* server: album -> the assets it contains
  assetAlbums,    \* synchronizeAlbums: asset -> albums fetched for it
  allAlbumIDs,    \* synchronizeAlbums: union of the fetched album ids
  pendingAlbums,  \* album ids the range over allAlbumIDs has not visited yet
  ai,             \* index into group.Assets of the fetch loops
  syncCount,      \* synchronizeAlbums: syncCount
  assetDetails,   \* autoDeleteDuplicates: asset -> AssetDetails
  bestAssetID,    \* autoDeleteDuplicates: bestAssetID
  assetsToDelete, \* autoDeleteDuplicates: the ids in assetsToDelete
  pendingDelete,  \* ids the range over assetsToDelete has not visited yet
  order,          \* the order in which the ranker visited its map (SpecSelect)
  calls,          \* the write calls issued to the server so far (a bag)
  response,       \* autoDeleteDuplicates: what Scanln read, while in scope
  failures,       \* gateway calls that failed so far
  syncCounts,     \* per finished synchronizeAlbums: the count it returned
  membersBefore,  \* history: albumMembers when the running synchronizeAlbums began
  results,        \* per processed group: what processDuplicateGroup returned
  filename,       \* isOriginalFilename: its argument (SpecClassify)
  original        \* isOriginalFilename: the value it returned (SpecClassify)

vars == <<config, pc, duplicates, gi, serverGroups, albumMembers, assetAlbums, allAlbumIDs,
          pendingAlbums, ai, syncCount, assetDetails, bestAssetID, assetsToDelete,
          pendingDelete, order, calls, response, failures, syncCounts, membersBefore,
          results, filename, original>>

EmptyMap == <<>>

\* response before Scanln has run, and after it went out of scope.
NoResponse == [ok |-> FALSE, word |-> <<>>]

MapPut(m, k, v) == [x \in DOMAIN m \cup {k} |-> IF x = k THEN v ELSE m[x]]

group == duplicates[gi]

GroupSet(g) == { g[k] : k \in 1..Len(g) }

\* GET /api/albums?assetId=... answered 200: the albums containing the asset.
ServerAlbumsOf(members, assetID) == { al \in DOMAIN members : assetID \in members[al] }

RECURSIVE AlbumCode(_)
AlbumCode(S) ==
  IF S = {} THEN 0
  ELSE LET al == CHOOSE x \in S : TRUE IN 2 ^ (al - 1) + AlbumCode(S \ {al})

\* The assets of a group are interchangeable, and an asset outside every
\* group of two or more is never looked at: the assets of a group are listed
\* in non-decreasing order of their album sets, and the other assets are in
\* no album.
Canonical(groups, members) ==
  /\ \A a \in Assets :
       (~ \E k \in DOMAIN groups : Len(groups[k]) >= 2 /\ a \in GroupSet(groups[k]))
         => ServerAlbumsOf(members, a) = {}
  /\ \A k \in DOMAIN groups : \A i, j \in DOMAIN groups[k] :
       i < j => AlbumCode(ServerAlbumsOf(members, groups[k][i]))
                  <= AlbumCode(ServerAlbumsOf(members, groups[k][j]))

\* What the server holds when the run starts.
ServerStates ==
  { st \in [groups : Listings, members : [Albums -> SUBSET Assets]] :
      Canonical(st.groups, st.members) }

\* Config.Verbose only selects log lines (main.go 257-266 and 333-338) and the
\* log is not part of the state; ImmichURL and APIKey are fixed by validateConfig.
Configs == [AutoDelete : BOOLEAN, DryRun : BOOLEAN, Yes : BOOLEAN]

Init ==
  /\ config \in Configs
  /\ pc = "start"
  /\ duplicates = <<>>
  /\ gi = 0
  /\ \E st \in ServerStates :
       serverGroups = st.groups /\ albumMembers = st.members
  /\ assetAlbums = EmptyMap
  /\ allAlbumIDs = {}
  /\ pendingAlbums = {}
  /\ ai = 0
  /\ syncCount = 0
  /\ assetDetails = EmptyMap
  /\ bestAssetID = NoAsset
  /\ assetsToDelete = {}
  /\ pendingDelete = {}
  /\ order = <<>>
  /\ calls = EmptyBag
  /\ response = NoResponse
  /\ failures = 0
  /\ syncCounts = <<>>
  /\ membersBefore = [al \in Albums |-> {}]
  /\ results = <<>>
  /\ filename = <<>>
  /\ original = TRUE


(***************************************************************************)
(* Gateway: the effect of a successful write on the server.                *)
(***************************************************************************)
SeqSet(s) == { s[k] : k \in 1..Len(s) }

\* PUT /api/albums/{albumID}/assets answered 200.
ServerAdd(members, albumID, assetIDs) ==
  [members EXCEPT ![albumID] = @ \cup SeqSet(assetIDs)]

\* DELETE /api/assets answered 200 or 204: the asset leaves every album.
ServerDelete(members, assetID) ==
  [al \in DOMAIN members |-> members[al] \ {assetID}]

AddCall(albumID, assetIDs, ok) ==
  [op |-> "add", group |-> gi, album |-> albumID, ids |-> assetIDs, ok |-> ok]

DeleteCall(assetID, ok) ==
  [op |-> "delete", group |-> gi, album |-> 0, ids |-> <<assetID>>, ok |-> ok]

(***************************************************************************)
(* main: listing, and the loop over the groups.                            *)
(***************************************************************************)
ClearLocals ==
  /\ assetAlbums' = EmptyMap
  /\ allAlbumIDs' = {}
  /\ pendingAlbums' = {}
  /\ ai' = 0
  /\ syncCount' = 0
  /\ assetDetails' = EmptyMap
  /\ bestAssetID' = NoAsset
  /\ assetsToDelete' = {}
  /\ pendingDelete' = {}
  /\ membersBefore' = [al \in Albums |-> {}]

\* Mutant of FinishGroup: an error of one group ends the run.
Mut_FinishGroup(res) ==
  /\ results' = Append(results, res)
  /\ gi' = gi + 1
  /\ pc' = IF gi = Len(duplicates) \/ res = "error" THEN "done" ELSE "group"
  /\ ClearLocals

\* processDuplicateGroup returns res; main logs an error and goes on.
FinishGroup(res) ==
  /\ results' = Append(results, res)
  /\ gi' = gi + 1
  /\ pc' = IF gi = Len(duplicates) THEN "done" ELSE "group"
  /\ ClearLocals

\* getDuplicates succeeded.
FetchDuplicates ==
  /\ pc = "start"
  /\ duplicates' = serverGroups
  /\ IF Len(serverGroups) = 0
       THEN pc' = "done" /\ gi' = gi
       ELSE pc' = "group" /\ gi' = 1
  /\ UNCHANGED <<config, filename, original, serverGroups, albumMembers, assetAlbums, allAlbumIDs,
                 pendingAlbums, ai, syncCount, assetDetails, bestAssetID,
                 assetsToDelete, pendingDelete, order, calls, response,
                 failures, syncCounts, membersBefore, results>>

\* getDuplicates failed: log.Fatalf.
FetchDuplicatesFail ==
  /\ failures < MaxFailures
  /\ failures' = failures + 1
  /\ pc = "start"
  /\ pc' = "fatal"
  /\ UNCHANGED <<config, filename, original, serverGroups, duplicates, gi, albumMembers,
                 assetAlbums, allAlbumIDs, pendingAlbums, ai, syncCount,
                 assetDetails, bestAssetID, assetsToDelete, pendingDelete,
                 order, calls, response, syncCounts, membersBefore, results>>

\* processDuplicateGroup on a group of fewer than two assets.
SkipGroup ==
  /\ pc = "group"
  /\ Len(group) < 2
  /\ FinishGroup("ok")
  /\ UNCHANGED <<config, filename, original, serverGroups, duplicates, albumMembers, order, calls,
                 response, failures, syncCounts>>

\* processDuplicateGroup enters synchronizeAlbums.
EnterGroup ==
  /\ pc = "group"
  /\ Len(group) >= 2
  /\ pc' = "fetchAlbums"
  /\ ai' = 1
  /\ membersBefore' = albumMembers
  /\ UNCHANGED <<config, filename, original, serverGroups, duplicates, gi, albumMembers,
                 assetAlbums, allAlbumIDs, pendingAlbums, syncCount,
                 assetDetails, bestAssetID, assetsToDelete, pendingDelete,
                 order, calls, response, failures, syncCounts, results>>

(***************************************************************************)
(* synchronizeAlbums.                                                      *)
(***************************************************************************)
AfterFetchAlbums(ids) ==
  IF ai = Len(group)
    THEN pc' = "sync" /\ ai' = 0 /\ pendingAlbums' = ids
    ELSE pc' = pc /\ ai' = ai + 1 /\ pendingAlbums' = pendingAlbums

\* getAlbumsForAsset succeeded for group.Assets[ai].
FetchAlbums ==
  /\ pc = "fetchAlbums"
  /\ LET albums == ServerAlbumsOf(albumMembers, group[ai])
     IN  /\ assetAlbums' = MapPut(assetAlbums, group[ai], albums)
         /\ allAlbumIDs' = allAlbumIDs \cup albums
         /\ AfterFetchAlbums(allAlbumIDs \cup albums)
  /\ UNCHANGED <<config, filename, original, serverGroups, duplicates, gi, albumMembers, syncCount,
                 assetDetails, bestAssetID, assetsToDelete, pendingDelete,
                 order, calls, response, failures, syncCounts, membersBefore,
                 results>>

\* getAlbumsForAsset failed for group.Assets[ai]: warning, continue.
FetchAlbumsFail ==
  /\ failures < MaxFailures
  /\ failures' = failures + 1
  /\ pc = "fetchAlbums"
  /\ AfterFetchAlbums(allAlbumIDs)
  /\ UNCHANGED <<config, filename, original, serverGroups, duplicates, gi, albumMembers,
                 assetAlbums, allAlbumIDs, syncCount, assetDetails, bestAssetID,
                 assetsToDelete, pendingDelete, order, calls, response,
                 syncCounts, membersBefore, results>>

\* assetAlbums[asset.ID]: a missing key yields the nil slice.
AlbumsKnown(m, assetID) == IF assetID \in DOMAIN m THEN m[assetID] ELSE {}

\* Mutant of AssetsToAdd: the scan of the group stops at the first asset
\* that is not in the album.
Mut_AssetsToAdd(g, m, albumID) ==
  LET missing == SelectSeq(g, LAMBDA assetID : albumID \notin AlbumsKnown(m, assetID))
  IN  IF missing = <<>> THEN <<>> ELSE <<missing[1]>>

\* assetsToAdd for albumID: the group's assets not found in the album.
AssetsToAdd(g, m, albumID) ==
  SelectSeq(g, LAMBDA assetID : albumID \notin AlbumsKnown(m, assetID))

SyncUnchanged ==
  UNCHANGED <<config, filename, original, serverGroups, duplicates, gi, assetAlbums, allAlbumIDs,
              ai, assetDetails, bestAssetID, assetsToDelete, pendingDelete,
              order, response, syncCounts, membersBefore, results>>

\* One album of the range: nothing to add.
SyncNothing ==
  /\ pc = "sync"
  /\ \E albumID \in pendingAlbums :
       /\ Len(AssetsToAdd(group, assetAlbums, albumID)) = 0
       /\ pendingAlbums' = pendingAlbums \ {albumID}
  /\ UNCHANGED <<pc, albumMembers, syncCount, calls, failures>>
  /\ SyncUnchanged

\* One album of the range, DryRun: count, no write.
SyncDryRun ==
  /\ pc = "sync"
  /\ config.DryRun
  /\ \E albumID \in pendingAlbums :
       LET assetsToAdd == AssetsToAdd(group, assetAlbums, albumID)
       IN  /\ Len(assetsToAdd) > 0
           /\ syncCount' = syncCount + Len(assetsToAdd)
           /\ pendingAlbums' = pendingAlbums \ {albumID}
  /\ UNCHANGED <<pc, albumMembers, calls, failures>>
  /\ SyncUnchanged

\* One album of the range: addAssetsToAlbum succeeded.
SyncAdd ==
  /\ pc = "sync"
  /\ ~ config.DryRun
  /\ \E albumID \in pendingAlbums :
       LET assetsToAdd == AssetsToAdd(group, assetAlbums, albumID)
       IN  /\ Len(assetsToAdd) > 0
           /\ albumMembers' = ServerAdd(albumMembers, albumID, assetsToAdd)
           /\ calls' = calls (+) SetToBag({AddCall(albumID, assetsToAdd, TRUE)})
           /\ syncCount' = syncCount + Len(assetsToAdd)
           /\ pendingAlbums' = pendingAlbums \ {albumID}
  /\ UNCHANGED <<pc, failures>>
  /\ SyncUnchanged

\* Mutant of SyncAddFail: the assets of a failed write are counted.
Mut_SyncAddFailCounts ==
  /\ failures < MaxFailures
  /\ failures' = failures + 1
  /\ pc = "sync"
  /\ ~ config.DryRun
  /\ \E albumID \in pendingAlbums :
       LET assetsToAdd == AssetsToAdd(group, assetAlbums, albumID)
       IN  /\ Len(assetsToAdd) > 0
           /\ calls' = calls (+) SetToBag({AddCall(albumID, assetsToAdd, FALSE)})
           /\ syncCount' = syncCount + Len(assetsToAdd)
           /\ pendingAlbums' = pendingAlbums \ {albumID}
  /\ UNCHANGED <<pc, albumMembers>>
  /\ SyncUnchanged

\* Mutant of SyncAddFail: a failed write ends the range over the albums.
Mut_SyncAddFailAborts ==
  /\ failures < MaxFailures
  /\ failures' = failures + 1
  /\ pc = "sync"
  /\ ~ config.DryRun
  /\ \E albumID \in pendingAlbums :
       LET assetsToAdd == AssetsToAdd(group, assetAlbums, albumID)
       IN  /\ Len(assetsToAdd) > 0
           /\ calls' = calls (+) SetToBag({AddCall(albumID, assetsToAdd, FALSE)})
           /\ pendingAlbums' = {}
  /\ UNCHANGED <<pc, albumMembers, syncCount>>
  /\ SyncUnchanged

\* One album of the range: addAssetsToAlbum failed; error logged.
SyncAddFail ==
  /\ failures < MaxFailures
  /\ failures' = failures + 1
  /\ pc = "sync"
  /\ ~ config.DryRun
  /\ \E albumID \in pendingAlbums :
       LET assetsToAdd == AssetsToAdd(group, assetAlbums, albumID)
       IN  /\ Len(assetsToAdd) > 0
           /\ calls' = calls (+) SetToBag({AddCall(albumID, assetsToAdd, FALSE)})
           /\ pendingAlbums' = pendingAlbums \ {albumID}
  /\ UNCHANGED <<pc, albumMembers, syncCount>>
  /\ SyncUnchanged

\* Mutant of SyncReturn: autoDeleteDuplicates is called although AutoDelete
\* is off.
Mut_SyncReturn ==
  /\ pc = "sync"
  /\ pendingAlbums = {}
  /\ ~ config.AutoDelete
  /\ syncCounts' = Append(syncCounts, [group |-> gi, count |-> syncCount])
  /\ pc' = "fetchDetails"
  /\ ai' = 1
  /\ assetAlbums' = EmptyMap
  /\ allAlbumIDs' = {}
  /\ syncCount' = 0
  /\ membersBefore' = [al \in Albums |-> {}]
  /\ UNCHANGED <<config, filename, original, serverGroups, duplicates, gi, albumMembers,
                 pendingAlbums, assetDetails, bestAssetID, assetsToDelete,
                 pendingDelete, order, calls, response, failures, results>>

\* synchronizeAlbums returns (syncCount, nil); AutoDelete is off.
SyncReturn ==
  /\ pc = "sync"
  /\ pendingAlbums = {}
  /\ ~ config.AutoDelete
  /\ syncCounts' = Append(syncCounts, [group |-> gi, count |-> syncCount])
  /\ FinishGroup("ok")
  /\ UNCHANGED <<config, filename, original, serverGroups, duplicates, albumMembers, order, calls,
                 response, failures>>

\* synchronizeAlbums returns (syncCount, nil); autoDeleteDuplicates starts.
SyncReturnAutoDelete ==
  /\ pc = "sync"
  /\ pendingAlbums = {}
  /\ config.AutoDelete
  /\ syncCounts' = Append(syncCounts, [group |-> gi, count |-> syncCount])
  /\ pc' = "fetchDetails"
  /\ ai' = 1
  /\ assetAlbums' = EmptyMap
  /\ allAlbumIDs' = {}
  /\ syncCount' = 0
  /\ membersBefore' = [al \in Albums |-> {}]
  /\ UNCHANGED <<config, filename, original, serverGroups, duplicates, gi, albumMembers,
                 pendingAlbums, assetDetails, bestAssetID, assetsToDelete,
                 pendingDelete, order, calls, response, failures, results>>


(***************************************************************************)
(* autoDeleteDuplicates.                                                   *)
(***************************************************************************)
AfterFetchDetails ==
  IF ai = Len(group)
    THEN pc' = "rank" /\ ai' = 0
    ELSE pc' = pc /\ ai' = ai + 1

\* getAssetDetails succeeded for group.Assets[ai].
FetchDetails ==
  /\ pc = "fetchDetails"
  /\ \E details \in DetailsAnswers :
       assetDetails' = MapPut(assetDetails, group[ai], details)
  /\ AfterFetchDetails
  /\ UNCHANGED <<config, filename, original, serverGroups, duplicates, gi, albumMembers,
                 assetAlbums, allAlbumIDs, pendingAlbums, syncCount,
                 bestAssetID, assetsToDelete, pendingDelete, order, calls,
                 response, failures, syncCounts, membersBefore, results>>

\* getAssetDetails failed for group.Assets[ai]: warning, continue.
FetchDetailsFail ==
  /\ failures < MaxFailures
  /\ failures' = failures + 1
  /\ pc = "fetchDetails"
  /\ AfterFetchDetails
  /\ UNCHANGED <<config, filename, original, serverGroups, duplicates, gi, albumMembers,
                 assetAlbums, allAlbumIDs, pendingAlbums, syncCount,
                 assetDetails, bestAssetID, assetsToDelete, pendingDelete,
                 order, calls, response, syncCounts, membersBefore, results>>

\* Mutant of NotEnoughDetails: with fewer than two details the operator is
\* asked to confirm all the same.
Mut_NotEnoughDetails ==
  /\ pc = "rank"
  /\ Cardinality(DOMAIN assetDetails) < 2
  /\ pc' = "confirm"
  /\ UNCHANGED <<config, filename, original, serverGroups, duplicates, gi, albumMembers,
                 assetAlbums, allAlbumIDs, pendingAlbums, ai, syncCount,
                 assetDetails, bestAssetID, assetsToDelete, pendingDelete,
                 order, calls, response, failures, syncCounts, membersBefore,
                 results>>

\* len(assetDetails) < 2: nothing to compare, return nil.
NotEnoughDetails ==
  /\ pc = "rank"
  /\ Cardinality(DOMAIN assetDetails) < 2
  /\ FinishGroup("ok")
  /\ UNCHANGED <<config, filename, original, serverGroups, duplicates, albumMembers, order, calls,
                 response, failures, syncCounts>>

\* Mutant of ToDelete: the best asset is not left out.
Mut_ToDelete(details, best) == DOMAIN details

\* The keys of assetDetails other than bestAssetID.
ToDelete(details, best) == { assetID \in DOMAIN details : assetID # best }

\* The confirmation prompt is shown unless --yes or --dry-run is set.
NeedsConfirmation(cfg) == ~ cfg.Yes /\ ~ cfg.DryRun

\* Mutant of RankFail: the failure to find a best asset is not reported.
Mut_RankFail ==
  /\ pc = "rank"
  /\ Cardinality(DOMAIN assetDetails) >= 2
  /\ \E o \in Orders(DOMAIN assetDetails) :
       selectBestQualityAsset(assetDetails, o) = NoAsset
  /\ FinishGroup("ok")
  /\ UNCHANGED <<config, filename, original, serverGroups, duplicates, albumMembers, order, calls,
                 response, failures, syncCounts>>

\* selectBestQualityAsset found no asset: the group fails.
RankFail ==
  /\ pc = "rank"
  /\ Cardinality(DOMAIN assetDetails) >= 2
  /\ \E o \in Orders(DOMAIN assetDetails) :
       selectBestQualityAsset(assetDetails, o) = NoAsset
  /\ FinishGroup("error")
  /\ UNCHANGED <<config, filename, original, serverGroups, duplicates, albumMembers, order, calls,
                 response, failures, syncCounts>>

\* selectBestQualityAsset found the best asset; assetsToDelete holds the
\* other keys of assetDetails (built by a second range over the map, so in
\* any order).
Rank ==
  /\ pc = "rank"
  /\ Cardinality(DOMAIN assetDetails) >= 2
  /\ \E o \in Orders(DOMAIN assetDetails) :
       LET best == selectBestQualityAsset(assetDetails, o)
       IN  /\ best # NoAsset
           /\ bestAssetID' = best
           /\ assetsToDelete' = ToDelete(assetDetails, best)
           /\ pendingDelete' = ToDelete(assetDetails, best)
           /\ ToDelete(assetDetails, best) # {}
  /\ pc' = IF NeedsConfirmation(config) THEN "confirm" ELSE "delete"
  /\ UNCHANGED <<config, filename, original, serverGroups, duplicates, gi, albumMembers,
                 assetAlbums, allAlbumIDs, pendingAlbums, ai, syncCount,
                 assetDetails, order, calls, response, failures, syncCounts,
                 membersBefore, results>>

Yes1 == <<"y">>
Yes3 == <<"y", "e", "s">>

\* Mutant of Accepts: only the first rune of the word is compared.
Mut_Accepts(word) == Len(word) > 0 /\ EqualFold(<<word[1]>>, Yes1)

\* The test on response that lets the deletion go on.
Accepts(word) == EqualFold(word, Yes1) \/ EqualFold(word, Yes3)

\* fmt.Scanln(&response) returned: an error (empty line, end of input, more
\* than one word), or one word stored in response.
Scan ==
  /\ pc = "confirm"
  /\ \/ response' = [ok |-> FALSE, word |-> <<>>]
     \/ \E word \in Responses : response' = [ok |-> TRUE, word |-> word]
  /\ pc' = "answered"
  /\ UNCHANGED <<config, filename, original, serverGroups, duplicates, gi, albumMembers,
                 assetAlbums, allAlbumIDs, pendingAlbums, ai, syncCount,
                 assetDetails, bestAssetID, assetsToDelete, pendingDelete,
                 order, calls, failures, syncCounts, membersBefore, results>>

\* Scanln failed, or the word is neither y nor yes: deletion cancelled,
\* return nil.
ConfirmNo ==
  /\ pc = "answered"
  /\ ~ response.ok \/ ~ Accepts(response.word)
  /\ response' = NoResponse
  /\ FinishGroup("ok")
  /\ UNCHANGED <<config, filename, original, serverGroups, duplicates, albumMembers, order, calls,
                 failures, syncCounts>>

\* The word is y or yes: go on to the delete loop.
ConfirmYes ==
  /\ pc = "answered"
  /\ response.ok /\ Accepts(response.word)
  /\ response' = NoResponse
  /\ pc' = "delete"
  /\ UNCHANGED <<config, filename, original, serverGroups, duplicates, gi, albumMembers,
                 assetAlbums, allAlbumIDs, pendingAlbums, ai, syncCount,
                 assetDetails, bestAssetID, assetsToDelete, pendingDelete,
                 order, calls, failures, syncCounts, membersBefore, results>>

\* After the iteration of the delete loop on assetID.
AfterDelete(assetID) ==
  IF pendingDelete = {assetID}
    THEN FinishGroup("ok")
    ELSE /\ pendingDelete' = pendingDelete \ {assetID}
         /\ UNCHANGED <<pc, gi, results, assetAlbums, allAlbumIDs,
                        pendingAlbums, ai, syncCount, assetDetails, bestAssetID,
                        assetsToDelete, membersBefore>>

\* Mutant of DeleteDryRun: the delete loop does not look at DryRun.
Mut_DeleteDryRun ==
  /\ pc = "delete"
  /\ config.DryRun
  /\ \E assetID \in pendingDelete :
       /\ albumMembers' = ServerDelete(albumMembers, assetID)
       /\ calls' = calls (+) SetToBag({DeleteCall(assetID, TRUE)})
       /\ AfterDelete(assetID)
  /\ UNCHANGED <<config, filename, original, serverGroups, duplicates, order, response, failures,
                 syncCounts>>

\* One asset of assetsToDelete, DryRun: log only.
DeleteDryRun ==
  /\ pc = "delete"
  /\ config.DryRun
  /\ \E assetID \in pendingDelete : AfterDelete(assetID)
  /\ UNCHANGED <<config, filename, original, serverGroups, duplicates, albumMembers, order, calls,
                 response, failures, syncCounts>>

\* One asset of assetsToDelete: deleteAsset succeeded.
Delete ==
  /\ pc = "delete"
  /\ ~ config.DryRun
  /\ \E assetID \in pendingDelete :
       /\ albumMembers' = ServerDelete(albumMembers, assetID)
       /\ calls' = calls (+) SetToBag({DeleteCall(assetID, TRUE)})
       /\ AfterDelete(assetID)
  /\ UNCHANGED <<config, filename, original, serverGroups, duplicates, order, response, failures,
                 syncCounts>>

\* Mutant of DeleteFail: a failed delete ends the delete loop.
Mut_DeleteFail ==
  /\ pc = "delete"
  /\ ~ config.DryRun
  /\ failures < MaxFailures
  /\ failures' = failures + 1
  /\ \E assetID \in pendingDelete :
       calls' = calls (+) SetToBag({DeleteCall(assetID, FALSE)})
  /\ FinishGroup("ok")
  /\ UNCHANGED <<config, filename, original, serverGroups, duplicates, albumMembers, order,
                 response, syncCounts>>

\* One asset of assetsToDelete: deleteAsset failed; error logged.
DeleteFail ==
  /\ pc = "delete"
  /\ ~ config.DryRun
  /\ failures < MaxFailures
  /\ failures' = failures + 1
  /\ \E assetID \in pendingDelete :
       /\ calls' = calls (+) SetToBag({DeleteCall(assetID, FALSE)})
       /\ AfterDelete(assetID)
  /\ UNCHANGED <<config, filename, original, serverGroups, duplicates, albumMembers, order,
                 response, syncCounts>>

Next ==
  \/ FetchDuplicates
  \/ FetchDuplicatesFail
  \/ SkipGroup
  \/ EnterGroup
  \/ FetchAlbums
  \/ FetchAlbumsFail
  \/ SyncNothing
  \/ SyncDryRun
  \/ SyncAdd
  \/ SyncAddFail
  \/ SyncReturn
  \/ SyncReturnAutoDelete
  \/ FetchDetails
  \/ FetchDetailsFail
  \/ NotEnoughDetails
  \/ RankFail
  \/ Rank
  \/ Scan
  \/ ConfirmNo
  \/ ConfirmYes
  \/ DeleteDryRun
  \/ Delete
  \/ DeleteFail

Spec == Init /\ [][Next]_vars

\* main is one sequential thread: a step that can be taken is taken once
\* the call before it has returned (each gateway call has a 30 s timeout,
\* main.go 430-624; Scanln returns when the operator answers).
SpecLive == Spec /\ WF_vars(Next)


(***************************************************************************)
(* The Quality Ranker on its own: selectBestQualityAsset applied to a      *)
(* candidate map, visited in any order.  Asset identifiers are             *)
(* interchangeable and every visiting order is taken, so the candidates    *)
(* are listed in non-decreasing CandKey order.                             *)
(***************************************************************************)
CandidateKinds ==
  { NoExif } \cup
  { [OriginalFileName |-> n, HasExif |-> TRUE, FileSizeInByte |-> sz, FileCreatedAt |-> t] :
      n \in {CameraName, OriginalName}, sz \in 0..MaxSize, t \in 0..MaxTime }

CandKey(c) ==
  IF ~ c.HasExif THEN 0
  ELSE 1 + (IF c.OriginalFileName = CameraName THEN 0 ELSE 1)
         + 2 * (c.FileCreatedAt + (MaxTime + 1) * c.FileSizeInByte)

CandidateMaps ==
  { m \in UNION { [1..n -> CandidateKinds] : n \in 0..MaxCands } :
      \A i, j \in DOMAIN m : i < j => CandKey(m[i]) <= CandKey(m[j]) }

InitSelect ==
  /\ config = [AutoDelete |-> TRUE, DryRun |-> TRUE, Yes |-> FALSE]
  /\ pc = "select"
  /\ duplicates = <<>>
  /\ gi = 0
  /\ serverGroups = <<>>
  /\ albumMembers = [al \in Albums |-> {}]
  /\ assetAlbums = EmptyMap
  /\ allAlbumIDs = {}
  /\ pendingAlbums = {}
  /\ ai = 0
  /\ syncCount = 0
  /\ assetDetails \in CandidateMaps
  /\ bestAssetID = NoAsset
  /\ assetsToDelete = {}
  /\ pendingDelete = {}
  /\ order = <<>>
  /\ calls = EmptyBag
  /\ response = NoResponse
  /\ failures = 0
  /\ syncCounts = <<>>
  /\ membersBefore = [al \in Albums |-> {}]
  /\ results = <<>>
  /\ filename = <<>>
  /\ original = TRUE

\* bestAssetID := selectBestQualityAsset(assetDetails)
SelectBest ==
  /\ pc = "select"
  /\ \E o \in Orders(DOMAIN assetDetails) :
       /\ order' = o
       /\ bestAssetID' = selectBestQualityAsset(assetDetails, o)
  /\ pc' = "selected"
  /\ UNCHANGED <<config, filename, original, serverGroups, duplicates, gi, albumMembers,
                 assetAlbums, allAlbumIDs, pendingAlbums, ai, syncCount,
                 assetDetails, assetsToDelete, pendingDelete, calls, response,
                 failures, syncCounts, membersBefore, results>>

NextSelect == SelectBest

SpecSelect == InitSelect /\ [][NextSelect]_vars


(***************************************************************************)
(* The Filename Classifier on its own: isOriginalFilename applied to a     *)
(* filename.  The filenames are the camera prefixes in every mix of upper  *)
(* and lower case, with the two runes other than a letter's lower case     *)
(* that unicode.ToUpper maps to a letter of a prefix (U+017F to S, U+0131  *)
(* to I), alone and followed by a digit, cut short by one rune, and        *)
(* shifted by one rune; the empty name and the names used in the runs.     *)
(***************************************************************************)
Spellings(c) ==
  {c} \cup (IF IndexIn(c, Uppers) # 0 THEN {Lowers[IndexIn(c, Uppers)]} ELSE {})
      \cup (IF c = "S" THEN {LongS} ELSE {})
      \cup (IF c = "I" THEN {DotlessI} ELSE {})

PrefixSpellings ==
  UNION { { f \in [1..Len(prefixes[k]) -> UNION { Spellings(prefixes[k][i]) : i \in 1..Len(prefixes[k]) }] :
              \A i \in 1..Len(prefixes[k]) : f[i] \in Spellings(prefixes[k][i]) } :
          k \in 1..Len(prefixes) }

Filenames ==
  PrefixSpellings
    \cup { p \o <<"1">> : p \in PrefixSpellings }
    \cup { SubSeq(p, 1, Len(p) - 1) : p \in PrefixSpellings }
    \cup { <<"x">> \o p : p \in PrefixSpellings }
    \cup { <<>>, CameraName, OriginalName }

InitClassify ==
  /\ config = [AutoDelete |-> TRUE, DryRun |-> TRUE, Yes |-> FALSE]
  /\ pc = "classify"
  /\ duplicates = <<>>
  /\ gi = 0
  /\ serverGroups = <<>>
  /\ albumMembers = [al \in Albums |-> {}]
  /\ assetAlbums = EmptyMap
  /\ allAlbumIDs = {}
  /\ pendingAlbums = {}
  /\ ai = 0
  /\ syncCount = 0
  /\ assetDetails = EmptyMap
  /\ bestAssetID = NoAsset
  /\ assetsToDelete = {}
  /\ pendingDelete = {}
  /\ order = <<>>
  /\ calls = EmptyBag
  /\ response = NoResponse
  /\ failures = 0
  /\ syncCounts = <<>>
  /\ membersBefore = [al \in Albums |-> {}]
  /\ results = <<>>
  /\ filename \in Filenames
  /\ original = TRUE

\* original := isOriginalFilename(filename)
Classify ==
  /\ pc = "classify"
  /\ original' = isOriginalFilename(filename)
  /\ pc' = "classified"
  /\ UNCHANGED <<config, filename, serverGroups, duplicates, gi, albumMembers,
                 assetAlbums, allAlbumIDs, pendingAlbums, ai, syncCount,
                 assetDetails, bestAssetID, assetsToDelete, pendingDelete,
                 order, calls, response, failures, syncCounts, membersBefore,
                 results>>

NextClassify == Classify

SpecClassify == InitClassify /\ [][NextClassify]_vars


(***************************************************************************)
(* Properties.                                                             *)
(***************************************************************************)
CallSet == BagToSet(calls)

AddCallsOf(g) == { c \in CallSet : c.op = "add" /\ c.group = g }

DeleteCallsOf(g) == { c \in CallSet : c.op = "delete" /\ c.group = g }

\* How many times a delete of assetID was attempted for group g in bag b.
Attempts(b, g, assetID) ==
  CopiesIn([op |-> "delete", group |-> g, album |-> 0, ids |-> <<assetID>>, ok |-> TRUE], b)
  + CopiesIn([op |-> "delete", group |-> g, album |-> 0, ids |-> <<assetID>>, ok |-> FALSE], b)

\* C1: in a run with DryRun set no add-assets-to-album call and no delete
\* call is ever issued, whatever the listing, the other flags and the
\* outcomes of the read calls.
C1_DryRunIssuesNoWrite == config.DryRun => CallSet = {}

\* A dry run that counted additions and is in the middle of its delete loop.
C1_Witness ==
  /\ config.DryRun
  /\ config.AutoDelete
  /\ pc = "delete"
  /\ pendingDelete # assetsToDelete
  /\ \E k \in DOMAIN syncCounts : syncCounts[k].count > 0

DeleteLoopEnds == pc = "delete" /\ pc' # "delete" /\ ~ config.DryRun

AllOthersDeletedOnce ==
  DeleteLoopEnds =>
    \A assetID \in GroupSet(group) \ {bestAssetID} : Attempts(calls', gi, assetID) = 1

\* C2 as stated: when the delete loop of a group ends, a delete was attempted
\* exactly once for every asset of the group other than the selected best.
C2_Original == [][AllOthersDeletedOnce]_vars

FetchedLosersDeletedOnce ==
  DeleteLoopEnds =>
    \A assetID \in GroupSet(group) :
       Attempts(calls', gi, assetID) =
         IF assetID \in DOMAIN assetDetails /\ assetID # bestAssetID THEN 1 ELSE 0

\* C2 amended: when the delete loop of a group ends, a delete was attempted
\* exactly once for every asset of the group whose details were fetched,
\* other than the selected best, and for no other asset of the group; a
\* failed delete does not stop the loop.
C2_DeleteEachFetchedLoserOnce == [][FetchedLosersDeletedOnce]_vars

\* A delete of the group has failed and the loop still has assets to visit.
C2_Witness ==
  /\ pc = "delete"
  /\ ~ config.DryRun
  /\ pendingDelete # {}
  /\ \E c \in DeleteCallsOf(gi) : ~ c.ok

\* Unicode case folding of one rune, and of a word.
FoldRune(c) ==
  IF c = LongS THEN "s"
  ELSE IF IndexIn(c, Uppers) # 0 THEN Lowers[IndexIn(c, Uppers)]
  ELSE c

IsYes(word) ==
  LET folded == [k \in 1..Len(word) |-> FoldRune(word[k])]
  IN  folded = <<"y">> \/ folded = <<"y", "e", "s">>

PromptRequired == config.AutoDelete /\ ~ config.Yes /\ ~ config.DryRun

Affirmed == response.ok /\ IsYes(response.word)

ConfirmGate ==
  /\ (PromptRequired /\ pc # "delete" /\ pc' = "delete")
       => (pc = "answered" /\ Affirmed)
  /\ (\E c \in BagToSet(calls') : c.op = "delete" /\ CopiesIn(c, calls') > CopiesIn(c, calls))
       => pc = "delete"
  /\ (pc = "answered" /\ ~ Affirmed)
       => /\ calls' = calls
          /\ DeleteCallsOf(gi) = {}
          /\ results' = Append(results, "ok")

\* C3: with AutoDelete set and neither Yes nor DryRun, the delete loop of a
\* group is entered only from an answer that is y or yes up to case, delete
\* calls are issued only inside the delete loop, and any other answer or a
\* failed read issues no delete call for the group and returns success.
C3_DeleteOnlyAfterYes == [][ConfirmGate]_vars

\* A delete call was issued in a run that had to ask.
C3_Witness == PromptRequired /\ \E c \in CallSet : c.op = "delete"

SyncStepOnlyAdds ==
  pc \in {"fetchAlbums", "sync"} =>
    /\ \A al \in Albums : albumMembers[al] \subseteq albumMembers'[al]
    /\ \A c \in BagToSet(calls') :
         CopiesIn(c, calls') > CopiesIn(c, calls) => c.op = "add"

\* C4: while synchronizeAlbums runs no album loses an asset and every call
\* issued is an add; with AutoDelete off every write of the run is an add.
C4_SyncOnlyAdds ==
  /\ [](~ config.AutoDelete => \A c \in CallSet : c.op = "add")
  /\ [][SyncStepOnlyAdds]_vars

\* A run without AutoDelete that added assets to an album and completed.
C4_Witness ==
  /\ ~ config.AutoDelete
  /\ pc = "done"
  /\ \E c \in CallSet : c.op = "add" /\ c.ok

SyncLoopDone == pc = "sync" /\ pendingAlbums = {}

AllFetched == DOMAIN assetAlbums = GroupSet(group)

\* C5: when the loop of synchronizeAlbums ends in a run without DryRun, every
\* album fetch and every add having succeeded, every album that contained an
\* asset of the group contains all assets of the group.
C5_AlbumsUnified ==
  (SyncLoopDone /\ ~ config.DryRun /\ AllFetched /\ \A c \in AddCallsOf(gi) : c.ok)
    => \A al \in Albums :
         membersBefore[al] \cap GroupSet(group) # {}
           => GroupSet(group) \subseteq albumMembers[al]

\* Such a synchronisation that had to write to two albums.
C5_Witness ==
  /\ SyncLoopDone /\ ~ config.DryRun /\ AllFetched
  /\ \A c \in AddCallsOf(gi) : c.ok
  /\ Cardinality(AddCallsOf(gi)) = 2


\* C6 as stated: an asset whose album fetch failed appears in the asset list
\* of no add call issued for the group, while the assets that were fetched
\* end up in every album of the union when the writes succeed.
C6_Original ==
  /\ pc = "sync" => \A c \in AddCallsOf(gi) : SeqSet(c.ids) \subseteq DOMAIN assetAlbums
  /\ (SyncLoopDone /\ ~ config.DryRun /\ \A c \in AddCallsOf(gi) : c.ok)
       => \A al \in allAlbumIDs : DOMAIN assetAlbums \subseteq albumMembers[al]

IdenticalAlbumSets ==
  \A a, b \in GroupSet(group) :
     ServerAlbumsOf(membersBefore, a) = ServerAlbumsOf(membersBefore, b)

\* C7 as stated: when the loop of synchronizeAlbums ends (no DryRun), an
\* album of the union that was computed was written to if and only if some
\* asset of the group was not a member of it, then by exactly one call that
\* lists exactly the assets that were not members, no other album was
\* written to, and a group whose assets share one album set causes no write
\* and a count of 0.
C7_Original ==
  (SyncLoopDone /\ ~ config.DryRun) =>
    /\ \A al \in Albums :
         LET inUnion == al \in allAlbumIDs
             missing == GroupSet(group) \ membersBefore[al]
             written == { c \in AddCallsOf(gi) : c.album = al }
         IN  /\ written # {} <=> (inUnion /\ missing # {})
             /\ \A c \in written :
                  /\ Cardinality(written) = 1
                  /\ CopiesIn(c, calls) = 1
                  /\ SeqSet(c.ids) = missing
    /\ IdenticalAlbumSets => (AddCallsOf(gi) = {} /\ syncCount = 0)

RECURSIVE SumAdded(_)
\* The assets listed by the calls of S, each call counted as often as issued.
SumAdded(S) ==
  IF S = {} THEN 0
  ELSE LET c == CHOOSE x \in S : TRUE
       IN  CopiesIn(c, calls) * Len(c.ids) + SumAdded(S \ {c})

SucceededAdds(g) == { c \in AddCallsOf(g) : c.ok }

\* The (asset, album) pairs a run without DryRun would write.
PairsToAdd ==
  { pr \in GroupSet(group) \X allAlbumIDs : pr[2] \notin AlbumsKnown(assetAlbums, pr[1]) }

\* Asset A is in album X alone, asset B in no album, and they are the group.
OneInOneOut(A, B, X) ==
  /\ GroupSet(group) = {A, B}
  /\ A # B
  /\ ServerAlbumsOf(membersBefore, A) = {X}
  /\ ServerAlbumsOf(membersBefore, B) = {}

\* C8: the count of synchronizeAlbums is the number of assets listed by the
\* add calls that succeeded; with DryRun it is the number of (asset, album)
\* pairs a run without DryRun would write; the count that was returned for a
\* group is that number; and for a group of A, in album X, and B, in none,
\* every call succeeding, one add of B to X is issued and the count is 1.
C8_CountIsPairsAdded ==
  /\ SyncLoopDone =>
       /\ config.DryRun => syncCount = Cardinality(PairsToAdd)
       /\ ~ config.DryRun => syncCount = SumAdded(SucceededAdds(gi))
       /\ \A A, B \in Assets : \A X \in Albums :
            (OneInOneOut(A, B, X) /\ failures = 0) =>
              /\ syncCount = 1
              /\ ~ config.DryRun =>
                   /\ AddCallsOf(gi) = { AddCall(X, <<B>>, TRUE) }
                   /\ CopiesIn(AddCall(X, <<B>>, TRUE), calls) = 1
  /\ ~ config.DryRun =>
       \A k \in DOMAIN syncCounts :
          syncCounts[k].count = SumAdded(SucceededAdds(syncCounts[k].group))

\* One write of the group failed, another added assets, the loop is over.
C8_Witness ==
  /\ SyncLoopDone
  /\ \E c \in AddCallsOf(gi) : ~ c.ok
  /\ \E c \in AddCallsOf(gi) : c.ok
  /\ syncCount > 0

EveryNeedyAlbumWritten ==
  (SyncLoopDone /\ ~ config.DryRun) =>
    \A al \in allAlbumIDs :
       (\E a \in GroupSet(group) : al \notin AlbumsKnown(assetAlbums, a))
         => /\ Cardinality({ c \in AddCallsOf(gi) : c.album = al }) = 1
            /\ \A c \in AddCallsOf(gi) : c.album = al => CopiesIn(c, calls) = 1

SyncReturnsSuccess ==
  (pc = "sync" /\ pc' # "sync") =>
    \/ pc' = "fetchDetails" /\ results' = results
    \/ results' = Append(results, "ok")

\* C9: a failed add call does not end the synchronisation: when the loop
\* ends, one add call was issued for every album of the union that lacked an
\* asset of the group, and synchronizeAlbums returns without error.
C9_FailedWriteDoesNotAbort == []EveryNeedyAlbumWritten /\ [][SyncReturnsSuccess]_vars

\* The write to one album failed and a write to another album was issued.
C9_Witness ==
  /\ SyncLoopDone
  /\ \E c, d \in AddCallsOf(gi) : ~ c.ok /\ d.album # c.album

WithSize == { a \in DOMAIN assetDetails : assetDetails[a].HasExif }

LargestSized ==
  { a \in WithSize :
      \A b \in WithSize : assetDetails[b].FileSizeInByte <= assetDetails[a].FileSizeInByte }

IsOriginal(a) == isOriginalFilename(assetDetails[a].OriginalFileName)

\* C10 as stated: when the candidates of largest size include one classified
\* original and one classified camera-generated, the selected asset is an
\* original one of them, whatever the timestamps and the visiting order.
C10_Original ==
  (pc = "selected" /\ (\E a, b \in LargestSized : IsOriginal(a) /\ ~ IsOriginal(b)))
    => (bestAssetID \in LargestSized /\ IsOriginal(bestAssetID))


Size(a) == assetDetails[a].FileSizeInByte

CreatedAt(a) == assetDetails[a].FileCreatedAt

\* C11: when one candidate with size metadata is strictly larger than every
\* other candidate with size metadata, selectBestQualityAsset returns it,
\* whatever the filenames, the creation instants and the visiting order.
C11_StrictlyLargestWins ==
  pc = "selected" =>
    \A a \in WithSize :
       (\A b \in WithSize \ {a} : Size(b) < Size(a)) => bestAssetID = a

\* The strictly largest candidate is camera-named, was visited first, and a
\* smaller candidate with an original name and an earlier instant followed.
C11_Witness ==
  /\ pc = "selected"
  /\ Len(order) = 3
  /\ \A a \in DOMAIN assetDetails : a \in WithSize
  /\ \A b \in DOMAIN assetDetails \ {order[1]} : Size(b) < Size(order[1])
  /\ ~ IsOriginal(order[1])
  /\ \E b \in DOMAIN assetDetails :
       IsOriginal(b) /\ CreatedAt(b) < CreatedAt(order[1])
  /\ bestAssetID = order[1]

\* The candidates with size metadata, in the order they were visited.
VisitedWithSize == SelectSeq(order, LAMBDA a : a \in WithSize)

TiedOnSizeAndClass ==
  \A a, b \in WithSize : Size(a) = Size(b) /\ IsOriginal(a) = IsOriginal(b)

\* C12: when the candidates with size metadata are tied on size and of one
\* originality class, selectBestQualityAsset returns the first visited of
\* the candidates whose creation instant is the earliest: a later candidate
\* replaces the best only when strictly earlier.  (An AssetDetails without
\* fileCreatedAt holds the zero instant, which is earlier than any other.)
C12_EarliestFirstVisitedWins ==
  (pc = "selected" /\ WithSize # {} /\ TiedOnSizeAndClass) =>
    /\ bestAssetID \in WithSize
    /\ \A b \in WithSize : CreatedAt(bestAssetID) <= CreatedAt(b)
    /\ \A k \in DOMAIN VisitedWithSize :
         CreatedAt(VisitedWithSize[k]) = CreatedAt(bestAssetID)
           => \E j \in 1..k : VisitedWithSize[j] = bestAssetID

\* Three tied candidates, the two earliest at the same instant, the later
\* one visited first.
C12_Witness ==
  /\ pc = "selected"
  /\ Cardinality(WithSize) = 3
  /\ TiedOnSizeAndClass
  /\ Len(order) = 3
  /\ CreatedAt(order[1]) > CreatedAt(order[2])
  /\ CreatedAt(order[2]) = CreatedAt(order[3])
  /\ CreatedAt(order[2]) > 0
  /\ bestAssetID = order[2]

\* C13: with sizes of 0 and more, selectBestQualityAsset returns the empty
\* identifier exactly when no candidate has size metadata (the empty map
\* included), and an identifier it returns is a key of the map whose
\* candidate has size metadata.
C13_NoneIffNoSizedCandidate ==
  pc = "selected" =>
    /\ bestAssetID = NoAsset <=> WithSize = {}
    /\ bestAssetID # NoAsset => bestAssetID \in WithSize

\* The only candidate with size metadata has size 0 and is selected, among
\* candidates without size metadata.
C13_Witness ==
  /\ pc = "selected"
  /\ Cardinality(DOMAIN assetDetails) = 3
  /\ Cardinality(WithSize) = 1
  /\ bestAssetID \in WithSize
  /\ Size(bestAssetID) = 0


\* C14 as stated: in the tie-break on the creation instant a candidate
\* without one (the zero instant) never replaces a best of the same size
\* and originality class that has one: when the candidates with size
\* metadata are tied on size and class and the first visited has a creation
\* instant, so has the asset returned.
C14_Original ==
  (/\ pc = "selected"
   /\ VisitedWithSize # <<>>
   /\ TiedOnSizeAndClass
   /\ CreatedAt(VisitedWithSize[1]) # 0)
    => CreatedAt(bestAssetID) # 0

SameSizeAndClass(a) ==
  { b \in WithSize : Size(b) = Size(a) /\ IsOriginal(b) = IsOriginal(a) }

AtMostPairsTie ==
  /\ \A a \in WithSize : Cardinality(SameSizeAndClass(a)) <= 2
  /\ \A a \in WithSize : \A b \in SameSizeAndClass(a) \ {a} : CreatedAt(a) # CreatedAt(b)

\* C15 as stated: when no more than two candidates tie on size and
\* originality class and no two tie on size, class and creation instant,
\* every visiting order yields the asset this visiting order yielded.
C15_Original ==
  (pc = "selected" /\ AtMostPairsTie) =>
    \A o \in Orders(DOMAIN assetDetails) :
       selectBestQualityAsset(assetDetails, o) = bestAssetID


FewDetails == pc = "rank" /\ Cardinality(DOMAIN assetDetails) < 2

SkipsRanking ==
  FewDetails =>
    /\ calls' = calls
    /\ DeleteCallsOf(gi) = {}
    /\ pc' \in {"group", "done"}
    /\ results' = Append(results, "ok")

RankedOnlyWithTwo ==
  pc \in {"confirm", "answered", "delete"} => Cardinality(DOMAIN assetDetails) >= 2

\* C16: with AutoDelete set, when getAssetDetails succeeded for fewer than
\* two assets of the group, the group ends at once with success: no delete
\* call was or is issued for it, and the prompt and the delete loop are only
\* ever reached with the details of two assets or more.
C16_FewDetailsSkipRanking == []RankedOnlyWithTwo /\ [][SkipsRanking]_vars

\* A group of three of which two metadata fetches failed, in a run that
\* would delete without asking.
C16_Witness ==
  /\ FewDetails
  /\ config.AutoDelete /\ config.Yes /\ ~ config.DryRun
  /\ Len(group) = 3
  /\ Cardinality(DOMAIN assetDetails) = 1


Processing ==
  pc \in {"group", "fetchAlbums", "sync", "fetchDetails", "rank", "confirm", "answered",
          "delete"}

\* results holds one entry per group already processed, in listing order.
OneResultPerGroup ==
  /\ Processing => (gi \in 1..Len(duplicates) /\ Len(results) = gi - 1)
  /\ pc = "done" => Len(results) = Len(duplicates)

\* What was fetched and what was written concerns the group in progress.
OnlyCurrentGroup ==
  /\ Processing =>
       /\ DOMAIN assetAlbums \subseteq GroupSet(group)
       /\ DOMAIN assetDetails \subseteq GroupSet(group)
  /\ \A c \in CallSet :
       /\ c.group \in 1..Len(duplicates)
       /\ SeqSet(c.ids) \subseteq GroupSet(duplicates[c.group])
       /\ Processing => c.group <= gi

\* Groups are taken one after the other: a call is issued for the group in
\* progress, and a group ends, with success or with an error, exactly when
\* the next one (or the end of the run) is reached.
InListingOrder ==
  Processing =>
    /\ \A c \in BagToSet(calls') : CopiesIn(c, calls') > CopiesIn(c, calls) => c.group = gi
    /\ \/ gi' = gi /\ results' = results /\ Processing'
       \/ /\ gi' = gi + 1
          /\ \E res \in {"ok", "error"} : results' = Append(results, res)
          /\ pc' = IF gi = Len(duplicates) THEN "done" ELSE "group"

StartsWithIgnoringCase(name, prefix) ==
  /\ Len(name) >= Len(prefix)
  /\ \A k \in 1..Len(prefix) : FoldRune(name[k]) = FoldRune(prefix[k])

CameraPrefixed(name) ==
  \E k \in 1..Len(prefixes) : StartsWithIgnoringCase(name, prefixes[k])

\* C18: isOriginalFilename returns false exactly when the filename,
\* compared case-insensitively, starts with one of the prefixes IMG_, DSC_,
\* DSCN, P_, PHOTO_, VID_, and true for every other filename, the empty
\* one included.
C18_Original ==
  pc = "classified" => (original <=> ~ CameraPrefixed(filename))


\* The assets of group g passed to a delete call, failed calls included.
PassedToDelete(g) == { c.ids[1] : c \in DeleteCallsOf(g) }

BestChosen == pc \in {"confirm", "answered", "delete"}

\* C19: the asset selected as best is an asset of the group with size
\* metadata, it is not among the assets to delete and is never passed to a
\* delete call of its group; the delete calls of a group of two or more
\* assets never cover all of its assets.
C19_BestIsNeverDeleted ==
  /\ BestChosen =>
       /\ bestAssetID \in GroupSet(group) \cap DOMAIN assetDetails
       /\ assetDetails[bestAssetID].HasExif
       /\ bestAssetID \notin assetsToDelete \cup pendingDelete
       /\ bestAssetID \notin PassedToDelete(gi)
  /\ \A g \in 1..Len(duplicates) :
       Len(duplicates[g]) >= 2 => PassedToDelete(g) # GroupSet(duplicates[g])

\* A group of three assets was processed to its end and two of them were
\* deleted.
C19_Witness ==
  /\ pc = "done"
  /\ \E g \in 1..Len(duplicates) :
       /\ Len(duplicates[g]) = 3
       /\ Cardinality({ c \in DeleteCallsOf(g) : c.ok }) = 2


\* A step that deletes an asset is taken when the best asset is a member of
\* every album the deleted asset is a member of.
DeletionKeepsAlbums ==
  \A a \in Assets :
    CopiesIn(DeleteCall(a, TRUE), calls') > CopiesIn(DeleteCall(a, TRUE), calls) =>
      \A al \in Albums : a \in albumMembers[al] => bestAssetID \in albumMembers[al]

\* No asset is deleted for a group one of whose add writes failed.  (A
\* failed membership fetch leaves no trace once synchronizeAlbums has
\* returned; what it leads to is covered by DeletionKeepsAlbums.)
NoDeleteAfterFailedAdd ==
  \A g \in 1..Len(duplicates) :
    (\E c \in AddCallsOf(g) : ~ c.ok) => \A c \in DeleteCallsOf(g) : ~ c.ok

\* C20: whenever an asset is deleted, the best asset of its group is at
\* that point in every album the deleted asset was in, and a group whose
\* album synchronization did not fully succeed has none of its assets
\* deleted.
C20_Original == [][DeletionKeepsAlbums]_vars /\ []NoDeleteAfterFailedAdd


\* The assets of the group in progress whose fetched details carry size
\* metadata: those the ranker compares.
Ranked == { a \in DOMAIN assetDetails : assetDetails[a].HasExif }

\* A step that passes an asset to a delete call, successful or not.
PassesToDelete(a) ==
  \E ok \in BOOLEAN :
    CopiesIn(DeleteCall(a, ok), calls') > CopiesIn(DeleteCall(a, ok), calls)

DeletesOnlyRanked ==
  \A a \in Assets :
    PassesToDelete(a) => (a \in Ranked /\ Cardinality(Ranked) >= 2)

\* C21: every asset passed to a delete call had size metadata and was
\* compared against the selected best, and no delete call is made unless
\* at least two assets of the group had size metadata.
C21_Original == [][DeletesOnlyRanked]_vars


\* A step with which processDuplicateGroup returns.
GroupReturns == Len(results') = Len(results) + 1

\* Auto-delete is set, metadata was fetched for at least two assets of the
\* group and the ranker returns none.
RankerFoundNone ==
  /\ pc = "rank"
  /\ config.AutoDelete
  /\ Cardinality(DOMAIN assetDetails) >= 2
  /\ \E o \in Orders(DOMAIN assetDetails) :
       selectBestQualityAsset(assetDetails, o) = NoAsset

ErrorOnlyFromRanker ==
  GroupReturns =>
    /\ (results'[Len(results')] = "error") <=> RankerFoundNone
    /\ (results'[Len(results')] = "error") =>
         \A c \in BagToSet(calls') : ~ (c.op = "delete" /\ c.group = gi)

\* C22: processing a group returns an error if and only if auto-delete is
\* set, metadata was fetched for at least two assets and the ranker
\* returned none, and then no delete call was issued for the group; in
\* every other case, whatever failed, it returns success.
C22_ErrorIffRankerFoundNone == [][ErrorOnlyFromRanker]_vars

\* A group returned an error although one of its add writes had failed
\* before (which alone does not make it fail), in a run with as many failed
\* calls as the bound allows.
C22_Witness ==
  /\ pc \in {"group", "done"}
  /\ \E g \in 1..Len(results) :
       /\ results[g] = "error"
       /\ \E c \in AddCallsOf(g) : ~ c.ok
  /\ failures = MaxFailures

====
